---- MODULE Spec2Model ----
(***************************************************************************)
(* Model of the bean-sprout planter's AI consultation page                 *)
(* (AIConsultationManager, ImageAttachment and the storage helper), of the *)
(* consultation engine behind /api/ai/* and of the dashboard that shows    *)
(* its harvest judgments.                                                  *)
(*                                                                         *)
(* One page instance is modelled together with the browser state it        *)
(* shares with earlier and later page loads (the localStorage item         *)
(* 'ai_consultation_history'), the wall clock and the network.             *)
(*                                                                         *)
(* Values.  A text is a record [body, pad]: body = 0 is a text without any *)
(* non-blank character, body = k # 0 stands for the k-th distinct          *)
(* non-blank text; pad says whether blanks surround it.  A JavaScript      *)
(* object is a function from its own keys to values; reading a key the     *)
(* object does not own yields Undefined, as in JavaScript.                 *)
(***************************************************************************)
EXTENDS Integers, Sequences, FiniteSets, TLC

\* ------------------------------------------------------------- bounds
\* Number of sendQuestion requests the model follows.
MaxSubmit == 2
\* Length of the history a previous session left in localStorage.
PreFill == 49
\* Last value of the wall clock.
MaxClock == 1
\* Clock values per displayed minute (formatDate shows minutes).
ClockPerMinute == 2

\* ---------------------------------------------------------- constants
\* this.maxHistoryLength = 50
maxHistoryLength == 50
\* chatHistory.slice(0, 5) in updateHistoryDisplay
HistoryViewLimit == 5
\* 5 * 1024 * 1024 in handleImageSelect
MaxImageBytes == 5242880

VARIABLES
    phase,          \* "constructed" (scripts ran) or "ready" (initialize ran)
    chatHistory,    \* this.chatHistory
    selectedTag,    \* this.selectedTag
    stored,         \* localStorage item 'ai_consultation_history'
         \* localStorage.setItem throws (quota exceeded)
    consoleLog,     \* what console.error received, in order
    historyPanel,   \* content of #history-container
    chat,           \* children of #chat-container
    notification,   \* the notification shown last
    questionInput,  \* value of #question-input
    attachedImage,  \* imageAttachment.attachedImage
    req,            \* the sendQuestion invocations and where each one stands
    now,            \* the wall clock when it was last read (new Date())
    added,          \* history variable: the requests whose completion added
                    \* an entry since chatHistory was last assigned
    tagItems,       \* the .tag-item elements: the data-tag values shown
                    \* and those of the elements with class 'active'
    tagsRequest     \* GET /api/ai/tags: "none", "inflight" or "settled"

\* the consultation page
pageVars == <<phase, chatHistory, selectedTag, stored, consoleLog,
              historyPanel, chat, notification, questionInput, attachedImage,
              req, now, added, tagItems, tagsRequest>>

VARIABLES
    pipeline,       \* engine: state of the consultation in the pipeline
    caller,         \* engine: who sent the consultation
    request,        \* engine: the ConsultationRequest
    camera,         \* engine: CameraCollaborator.latestImage()
    snapshot,       \* engine: SensorCollaborator.latestSnapshot()
    prompt,         \* engine: the PromptSpec composed
    provider,       \* engine: place in the chain of the provider in turn
    attempts,       \* engine: the provider attempts made, in order
    output,         \* engine: rawOutput of the provider that answered
    judgment,       \* engine: the StructuredJudgment
    response,       \* engine: the response envelope
    harvestPanel,   \* dashboard: #harvest-status and #harvest-result
    harvestCard     \* dashboard, first version: #harvest-status

\* the consultation engine
engineVars == <<pipeline, caller, request, camera, snapshot, prompt,
                provider, attempts, output, judgment, response>>

\* what the dashboard shows of the harvest judgment
harvestVars == <<harvestPanel, harvestCard>>

\* DashboardManager (second version): its fields, the intervals the browser
\* runs, the requests in flight; lastCall and lastInit record how the last
\* call of updateSystemStatus and of initialize ended, tick flips at every
\* timer callback
VARIABLES isInitialized, updateTimer, isUpdating, temperatureChart,
          historyLoaded, timers, statusInFlight, historyInFlight,
          harvestInFlight, lastCall, tick, lastInit
dashVars == <<isInitialized, updateTimer, isUpdating, temperatureChart,
              historyLoaded, timers, statusInFlight, historyInFlight,
              harvestInFlight, lastCall, tick, lastInit>>

\* WaterTankManager: its fields, the saved status, the last return value
\* of calculate_remaining_volume and the calls made so far
VARIABLES current_volume, water_usage_history, tank_status, remaining,
          tankCalls
tankVars == <<current_volume, water_usage_history, tank_status, remaining,
              tankCalls>>

\* what the engine and the harvest displays leave alone
outsideEngine == <<pageVars, dashVars, tankVars>>

vars == <<pageVars, engineVars, harvestVars, dashVars, tankVars>>

\* -------------------------------------------------------------- values
Undefined == "undefined"
NoImage == [size |-> 0, type |-> "none"]
NoNotification == [message |-> "none", type |-> "none"]

Text(k, p) == [body |-> k, pad |-> p]
EmptyText == Text(0, FALSE)

\* String.prototype.trim
trim(t) == Text(t.body, FALSE)

\* obj[key]
Field(obj, key) == IF key \in DOMAIN obj THEN obj[key] ELSE Undefined

Min(a, b) == IF a < b THEN a ELSE b

\* slice(-n): the last n elements
slice_Tail(arr, n) == SubSeq(arr, Len(arr) - Min(n, Len(arr)) + 1, Len(arr))

\* Array.prototype.slice(0, n)
slice(arr, n) == SubSeq(arr, 1, Min(n, Len(arr)))

\* push instead of unshift
unshift_Push(arr, item) == Append(arr, item)

\* an assignment to the first place instead of an insertion
unshift_Overwrite(arr, item) ==
    IF Len(arr) = 0 THEN <<item>> ELSE <<item>> \o Tail(arr)

\* Array.prototype.unshift
unshift(arr, item) == <<item>> \o arr

\* ------------------------------------------------------------- storage
EntryKeys == {"timestamp", "question", "answer", "tag"}

\* The properties of a history item that may hold undefined: the tag is
\* this.selectedTag, which selectTag sets to whatever it is handed; the
\* timestamp and the question always are strings.
MayBeUndefined == {"tag"}

IsUndefined(obj, key) == key \in MayBeUndefined /\ obj[key] = Undefined

\* a serialisation that leaves the answer out
stringifyObject_NoAnswer(obj) ==
    {<<k, obj[k]>> : k \in DOMAIN obj \ {"answer"}}

\* JSON.stringify of one object: properties whose value is undefined are
\* left out of the text.
\* The text of an object is the set of its "key": value members.
stringifyObject(obj) ==
    {<<k, obj[k]>> : k \in {k \in DOMAIN obj : ~IsUndefined(obj, k)}}

\* JSON.stringify of an array of objects
stringify(arr) == [i \in 1..Len(arr) |-> stringifyObject(arr[i])]

\* JSON.parse of one object
parseObject(members) ==
    [k \in {m[1] : m \in members} |-> (CHOOSE m \in members : m[1] = k)[2]]

\* JSON.parse of an array of objects
parse(text) == [i \in 1..Len(text) |-> parseObject(text[i])]

\* localStorage.getItem returns null for a key that is not there
NoItem == [present |-> FALSE, text |-> <<>>]
Item(text) == [present |-> TRUE, text |-> text]

\* storage.set without its try/catch
storageSet_Uncaught(item, value, full) ==
    IF full
    THEN [item |-> item, logged |-> <<>>, threw |-> TRUE]
    ELSE [item |-> Item(stringify(value)), logged |-> <<>>, threw |-> FALSE]

\* storage.set(key, value), with localStorage.setItem throwing when `full`:
\* the new item, what console.error received, and whether set itself threw
storageSet(item, value, full) ==
    IF full
    THEN [item |-> item, logged |-> <<"storage.set">>, threw |-> FALSE]
    ELSE [item |-> Item(stringify(value)), logged |-> <<>>, threw |-> FALSE]

\* storage.get(key, defaultValue)
storageGet(item, defaultValue) ==
    IF item.present THEN parse(item.text) ELSE defaultValue

\* a remove that removes nothing
storageRemove_Keeps(item) == item

\* storage.remove(key)
storageRemove(item) == NoItem

\* ------------------------------------------------------------- history
\* a length limit that is never applied
limitHistory_Unlimited(h) == h

\* the length limit of addToHistory
limitHistory(h) ==
    IF Len(h) > maxHistoryLength THEN slice(h, maxHistoryLength) ELSE h

historyItem(ts, question, answer, tag) ==
    [timestamp |-> ts, question |-> question, answer |-> answer, tag |-> tag]

\* an addToHistory that gives every entry the tag of the new one
addToHistory_Retag(h, ts, question, answer, tag) ==
    LET all == limitHistory(unshift(h, historyItem(ts, question, answer, tag)))
    IN  [i \in 1..Len(all) |-> [all[i] EXCEPT !.tag = tag]]

\* AIConsultationManager.addToHistory up to the write
addToHistory(h, ts, question, answer, tag) ==
    limitHistory(unshift(h, historyItem(ts, question, answer, tag)))

\* formatDate: year, month, day, hour and minute of the date
formatDate(ts) == ts \div ClockPerMinute

renderHistoryItem(item) ==
    [tag |-> Field(item, "tag"),
     date |-> formatDate(Field(item, "timestamp")),
     question |-> Field(item, "question")]

\* an updateHistoryDisplay that renders every entry
updateHistoryDisplay_All(h) ==
    IF Len(h) = 0
    THEN [kind |-> "placeholder", items |-> <<>>]
    ELSE [kind |-> "list",
          items |-> [i \in 1..Len(h) |-> renderHistoryItem(h[i])]]

\* updateHistoryDisplay: the placeholder, or the first five entries
updateHistoryDisplay(h) ==
    IF Len(h) = 0
    THEN [kind |-> "placeholder", items |-> <<>>]
    ELSE LET recentHistory == slice(h, HistoryViewLimit)
         IN  [kind |-> "list",
              items |-> [i \in 1..Len(recentHistory) |->
                            renderHistoryItem(recentHistory[i])]]

\* the history a previous session of n successful consultations left behind
PastHistory(n) ==
    [i \in 1..n |-> historyItem(0 - i, Text(0 - i, FALSE), "answer", "general")]

\* ---------------------------------------------------------------- chat
Message(type, content, isLoading, danger, r) ==
    [type |-> type, content |-> content, isLoading |-> isLoading,
     danger |-> danger, req |-> r]

addMessageToChat(c, m) == Append(c, m)

\* a removeLastMessage that leaves the chat as it is
removeLastMessage_Keeps(c) == c

\* removeLastMessage: removes lastElementChild, whatever it is
removeLastMessage(c) == IF Len(c) > 0 THEN SubSeq(c, 1, Len(c) - 1) ELSE c

\* ------------------------------------------------------------ requests
Requests == 1..MaxSubmit
\* state: none, inflight, success, error, thrown or aborted; write: what
\* localStorage.setItem did when the request's entry was saved
NoReq == [state |-> "none", question |-> EmptyText, image |-> NoImage,
          tag |-> Undefined, write |-> "none"]
InFlight(r) == req[r].state = "inflight"
Submitted == {r \in Requests : req[r].state # "none"}
NextReq == Cardinality(Submitted) + 1

\* ---------------------------------------------- engine: data model
\* the tags of the consultation API
Tags == {"general", "harvest", "disease", "cooking"}
\* the tags whose precondition is an image
VisionTags == {"harvest", "disease"}

\* ConsultationRequest: question "" is the empty text, imageRef "none" is
\* no image
Request(tag, question, imageRef) ==
    [tag |-> tag, question |-> question, imageRef |-> imageRef]
NoRequest == Request("general", "", "none")

\* Confidence and the other numbers of a judgment are written in 1/10000:
\* 10000 stands for 1.0.
One == 10000

\* key: value of a record that has only this key
Only(key, value) == [k \in {key} |-> value]

\* ------------------------------------------------ engine: the router
\* an unknown tag maps to general
resolveTag(tag) == IF tag \in Tags THEN tag ELSE "general"

\* the image of a consultation: the one supplied with the request, else the
\* latest image of the camera collaborator
imageOf(r, latestImage) ==
    IF r.imageRef # "none" THEN r.imageRef ELSE latestImage

\* a router that asks for an image for the harvest tag alone
requiresImage_HarvestOnly(tag) == tag = "harvest"

\* the tags that cannot go on without an image
requiresImage(tag) == tag \in VisionTags

\* the input preconditions: the InputError, or "none"
inputError(r, latestImage) ==
    LET tag == resolveTag(r.tag)
    IN  IF requiresImage(tag) /\ imageOf(r, latestImage) = "none"
        THEN "missing image"
        ELSE IF tag = "general" /\ r.question = "" /\ r.imageRef = "none"
        THEN "missing question"
        ELSE "none"

\* --------------------------------------- engine: the prompt composer
NoPrompt == [template |-> "none"]

\* compose(tag, question, snapshot, imageRef): the template of the tag with
\* the sections for which there is input; a prompt with an image can only
\* be given to a provider that has vision
compose(tag, question, snap, imageRef) ==
    [template |-> tag,
     question |-> question,
     sensor |-> IF snap = "stale" THEN "omitted" ELSE snap,
     image |-> imageRef,
     capability |-> IF imageRef = "none" THEN "text" ELSE "vision"]

\* -------------------------------------- engine: the provider adapter
\* Number of providers in the configured chain.
NumProviders == 2
\* the configured chain, in priority order: the first provider reads text
\* only, the others also see images
capabilities(i) == IF i = 1 THEN {"text"} ELSE {"text", "vision"}

\* maximum 2 attempts in total for each provider
MaxAttempts == 2
Transient == {"timeout", "rate-limit", "5xx"}
NonTransient == {"auth", "malformed"}

\* the first provider after place `after` that satisfies the capability
\* the prompt requires; 0 when the chain is exhausted
nextProvider(after, capability) ==
    LET eligible == {i \in (after + 1)..NumProviders :
                        capability \in capabilities(i)}
    IN  IF eligible = {} THEN 0
        ELSE CHOOSE i \in eligible : \A j \in eligible : i <= j

\* the attempts made so far with provider i
attemptsOf(log, i) == Cardinality({n \in 1..Len(log) : log[n].provider = i})

\* a retry that does not look at the kind of the failure
retryable_Always(kind, made) == made < MaxAttempts

\* a failure is retried with the same provider when it is transient and
\* the provider has attempts left
retryable(kind, made) == kind \in Transient /\ made < MaxAttempts

\* ------------------------------ engine: response parser and validator
NoOutput == [format |-> "none"]
NoJudgment == [variant |-> "none"]

\* rawOutput: format "json" is the record as strict JSON, "fenced" the same
\* inside markdown fences and prose, "prose" is text without a record
Raw(format, record) == [format |-> format, record |-> record]

\* strict decoding: the record, if the text is nothing but the record
decodeStrict(raw) == IF raw.format = "json" THEN <<raw.record>> ELSE <<>>

\* lenient extraction: the record, if the text contains one
extractLenient(raw) ==
    IF raw.format \in {"json", "fenced"} THEN <<raw.record>> ELSE <<>>

\* a number within [0,1]
inUnitRange(rec, key) ==
    key \in DOMAIN rec /\ rec[key] >= 0 /\ rec[key] <= One

\* a validator that checks the types and ranges but not the relation
\* between harvestReady and daysRemaining
validate_FieldsOnly(tag, rec) ==
    CASE tag = "harvest" ->
             /\ inUnitRange(rec, "confidence")
             /\ rec.daysRemaining >= 0
             /\ rec.recommendation # ""
      [] tag = "disease" ->
             inUnitRange(rec, "confidence") /\ rec.diseaseDetected # ""
      [] tag = "cooking" -> Len(rec.recommendedDishes) > 0
      [] OTHER -> inUnitRange(rec, "confidence") /\ rec.answer # ""

\* the types, ranges and invariants of the judgment of each tag
validate(tag, rec) ==
    CASE tag = "harvest" ->
             /\ inUnitRange(rec, "confidence")
             /\ rec.daysRemaining >= 0
             /\ rec.harvestReady => rec.daysRemaining = 0
             /\ rec.recommendation # ""
      [] tag = "disease" ->
             inUnitRange(rec, "confidence") /\ rec.diseaseDetected # ""
      [] tag = "cooking" -> Len(rec.recommendedDishes) > 0
      [] OTHER -> inUnitRange(rec, "confidence") /\ rec.answer # ""

\* parse(rawOutput, tag): strict decoding, else lenient extraction, then
\* validation; the judgment in a sequence, or the empty sequence
\* (ParseError)
parseOutput(raw, tag) ==
    LET strict == decodeStrict(raw)
        candidate == IF Len(strict) > 0 THEN strict ELSE extractLenient(raw)
    IN  IF Len(candidate) > 0 /\ validate(tag, candidate[1])
        THEN candidate ELSE <<>>

\* ---------------------------------------- engine: the fallback policy
\* fallback(tag, snapshot): threshold rules over the snapshot
fallback(tag, snap) ==
    CASE tag = "harvest" ->
             [harvestReady |-> snap = "mature",
              confidence |-> One \div 2,
              recommendation |-> "heuristic",
              daysRemaining |-> IF snap = "mature" THEN 0 ELSE 1]
      [] tag = "disease" ->
             [diseaseDetected |-> "unknown", confidence |-> One \div 2]
      [] tag = "cooking" -> [recommendedDishes |-> <<"stir-fry">>]
      [] OTHER -> [answer |-> "heuristic", confidence |-> One \div 2]

\* ------------------------------------ engine: the response envelope
NoResponse == [status |-> "none"]

\* the fields of a judgment under the names of the API
apiFields(tag, j) ==
    IF tag = "harvest"
    THEN [harvest_ready |-> j.harvestReady,
          confidence |-> j.confidence,
          recommendation |-> j.recommendation,
          days_remaining |-> j.daysRemaining]
    ELSE j

\* {status: success, judgment fields, tag, degraded}
successResponse(tag, j, degraded) ==
    [status |-> "success", tag |-> tag, degraded |-> degraded]
    @@ apiFields(tag, j)

\* {status: error, error}
errorResponse(error) == [status |-> "error", error |-> error]

\* ------------------------------------- dashboard: harvest judgment
\* #harvest-status and #harvest-result as the template has them
NoResult == [ready |-> "", confidence |-> <<>>, badge |-> "",
             recommendation |-> ""]
TemplatePanel == [statusShown |-> TRUE, status |-> <<"template">>,
                  resultShown |-> FALSE, result |-> NoResult]

\* data.harvest_ready ? ... : ...
truthy(data, key) == key \in DOMAIN data /\ data[key] = TRUE

\* Math.round(data.confidence * 100): the whole percentage in a sequence,
\* the empty sequence for NaN
roundPercent(data) ==
    IF "confidence" \in DOMAIN data
    THEN <<(data.confidence + 50) \div 100>> ELSE <<>>

\* formatNumber(data.confidence * 100): the percentage in tenths, the empty
\* sequence for NaN
formatNumber(data) ==
    IF "confidence" \in DOMAIN data
    THEN <<(data.confidence + 5) \div 10>> ELSE <<>>

\* confidence > 70 ? 'bg-success' : confidence > 50 ? 'bg-warning' :
\* 'bg-danger' (a comparison with NaN is false)
badge(percent) ==
    IF Len(percent) > 0 /\ percent[1] > 70 THEN "bg-success"
    ELSE IF Len(percent) > 0 /\ percent[1] > 50 THEN "bg-warning"
    ELSE "bg-danger"

\* DashboardManager.displayHarvestResult
displayHarvestResult(panel, data) ==
    [panel EXCEPT
        !.statusShown = FALSE,
        !.resultShown = TRUE,
        !.result = [ready |-> IF truthy(data, "harvest_ready")
                              THEN "yes" ELSE "no",
                    confidence |-> roundPercent(data),
                    badge |-> badge(roundPercent(data)),
                    recommendation |->
                        IF "recommendation" \in DOMAIN data
                           /\ data.recommendation # ""
                        THEN data.recommendation ELSE "nothing special"]]

\* DashboardManager.displayHarvestError
displayHarvestError(panel, errorMessage) ==
    [panel EXCEPT !.status = <<"error", errorMessage>>]

\* an updateHarvestStatus that shows the result whatever the status is
harvestSettles_Always(panel, data, lost) ==
    IF lost THEN displayHarvestError(panel, "failed")
    ELSE displayHarvestResult(panel, data)

\* DashboardManager.updateHarvestStatus after its await: the response is
\* `data`, or the call threw (`lost`)
harvestSettles(panel, data, lost) ==
    IF lost THEN displayHarvestError(panel, "failed")
    ELSE IF data.status = "success" THEN displayHarvestResult(panel, data)
    ELSE displayHarvestError(panel, Field(data, "error"))

\* Number of error blocks the model lets checkHarvest pile up in
\* #harvest-status.
MaxErrorBlocks == 1

\* first version, #harvest-status: its content, the error blocks appended
\* to it, and what showLoading saved of both
Card(content, errors) == [content |-> content, errors |-> errors]
TemplateCard == Card(<<"template">>, 0) @@ [saved |-> <<>>]

\* showLoading(statusDiv)
showLoading(card) ==
    Card(<<"loading">>, 0) @@ [saved |-> <<Card(card.content, card.errors)>>]

\* DashboardManager.checkHarvest (first version) after its await
checkSettles(card, data, lost) ==
    IF lost
    THEN Card(card.saved[1].content, card.saved[1].errors + 1)
         @@ [saved |-> <<>>]
    ELSE IF data.status = "success"
    THEN Card(<<"card",
                IF truthy(data, "harvest_ready") THEN "ready" ELSE "not yet",
                formatNumber(data),
                Field(data, "recommendation"),
                IF "days_remaining" \in DOMAIN data
                THEN <<data.days_remaining>> ELSE <<>>>>, 0)
         @@ [saved |-> <<>>]
    ELSE Card(<<"error", Field(data, "error")>>, 0) @@ [saved |-> <<>>]

\* ------------------------------------------------- engine: pipeline
EngineIdle ==
    /\ pipeline = "Idle"
    /\ caller = "none"
    /\ request = NoRequest
    /\ camera = "none"
    /\ snapshot = "stale"
    /\ prompt = NoPrompt
    /\ provider = 0
    /\ attempts = <<>>
    /\ output = NoOutput
    /\ judgment = NoJudgment
    /\ response = NoResponse

HarvestTemplate ==
    /\ harvestPanel = TemplatePanel
    /\ harvestCard = TemplateCard

\* Received: a request arrives from `c`
Receive(c, r) ==
    /\ pipeline = "Idle"
    /\ pipeline' = "Received"
    /\ caller' = c
    /\ request' = r
    /\ UNCHANGED <<camera, snapshot, prompt, provider, attempts, output,
                   judgment, response>>

\* Router: the tag is resolved, the collaborators are asked once for the
\* latest image and snapshot, and the input preconditions are checked; a
\* failure is answered at once with status error
GatherInputs ==
    /\ pipeline = "Received"
    /\ \E latestImage \in {"none", "image"},
          latestSnapshot \in {"stale", "growing", "mature"} :
         /\ camera' = latestImage
         /\ snapshot' = latestSnapshot
         /\ IF inputError(request, latestImage) # "none"
            THEN /\ pipeline' = "Rejected"
                 /\ response' = errorResponse(inputError(request, latestImage))
            ELSE /\ pipeline' = "InputsGathered"
                 /\ UNCHANGED response
    /\ UNCHANGED <<caller, request, prompt, provider, attempts, output,
                   judgment, harvestVars, outsideEngine>>

\* Prompt Composer; the chain starts at its first eligible provider
ComposePrompt ==
    /\ pipeline = "InputsGathered"
    /\ pipeline' = "PromptComposed"
    /\ LET tag == resolveTag(request.tag)
       IN  prompt' = compose(tag, request.question, snapshot,
                             IF requiresImage(tag)
                             THEN imageOf(request, camera)
                             ELSE request.imageRef)
    /\ provider' = nextProvider(0, prompt'.capability)
    /\ UNCHANGED <<caller, request, camera, snapshot, attempts, output,
                   judgment, response, harvestVars, outsideEngine>>

\* Provider Adapter: the provider in turn is invoked (one call in flight)
InvokeProvider ==
    /\ pipeline \in {"PromptComposed", "ProviderFailed"}
    /\ provider # 0
    /\ pipeline' = "ProviderInvoked"
    /\ UNCHANGED <<caller, request, camera, snapshot, prompt, provider,
                   attempts, output, judgment, response, harvestVars, outsideEngine>>

Attempt(i, outcome) == [provider |-> i, outcome |-> outcome]

\* the call fails: a retry with the same provider, or the next provider of
\* the chain
ProviderFails(kinds) ==
    /\ pipeline = "ProviderInvoked"
    /\ pipeline' = "ProviderFailed"
    /\ \E kind \in kinds :
         /\ attempts' = Append(attempts, Attempt(provider, kind))
         /\ provider' = IF retryable(kind, attemptsOf(attempts', provider))
                        THEN provider
                        ELSE nextProvider(provider, prompt.capability)
    /\ UNCHANGED <<caller, request, camera, snapshot, prompt, output,
                   judgment, response, harvestVars, outsideEngine>>

\* the deadline of the consultation is reached while the call is awaited:
\* the call is abandoned and the pipeline goes to the fallback
DeadlineReached ==
    /\ pipeline = "ProviderInvoked"
    /\ pipeline' = "ProviderFailed"
    /\ attempts' = Append(attempts, Attempt(provider, "deadline"))
    /\ provider' = 0
    /\ UNCHANGED <<caller, request, camera, snapshot, prompt, output,
                   judgment, response, harvestVars, outsideEngine>>

\* the provider answers: the parser and the validator decide
ProviderAnswers(outputs) ==
    /\ pipeline = "ProviderInvoked"
    /\ \E raw \in outputs :
         LET parsed == parseOutput(raw, resolveTag(request.tag))
         IN  /\ output' = raw
             /\ attempts' = Append(attempts, Attempt(provider, "answered"))
             /\ IF Len(parsed) > 0
                THEN pipeline' = "Valid" /\ judgment' = parsed[1]
                ELSE pipeline' = "Invalid" /\ UNCHANGED judgment
    /\ UNCHANGED <<caller, request, camera, snapshot, prompt, provider,
                   response, harvestVars, outsideEngine>>

\* a pipeline that answers an exhausted chain or an invalid output with an
\* error
ApplyFallback_Error ==
    /\ \/ pipeline = "Invalid"
       \/ pipeline \in {"PromptComposed", "ProviderFailed"} /\ provider = 0
    /\ pipeline' = "Rejected"
    /\ response' = errorResponse("provider failed")
    /\ UNCHANGED <<caller, request, camera, snapshot, prompt, provider,
                   attempts, output, judgment, harvestVars, outsideEngine>>

\* Fallback Policy: after an invalid output or an exhausted chain
ApplyFallback ==
    /\ \/ pipeline = "Invalid"
       \/ pipeline \in {"PromptComposed", "ProviderFailed"} /\ provider = 0
    /\ pipeline' = "FallbackApplied"
    /\ judgment' = fallback(resolveTag(request.tag), snapshot)
    /\ UNCHANGED <<caller, request, camera, snapshot, prompt, provider,
                   attempts, output, response, harvestVars, outsideEngine>>

\* Completed: the judgment is returned, marked degraded after a fallback
Complete ==
    /\ pipeline \in {"Valid", "FallbackApplied"}
    /\ pipeline' = "Completed"
    /\ response' = successResponse(resolveTag(request.tag), judgment,
                                   pipeline = "FallbackApplied")
    /\ UNCHANGED <<caller, request, camera, snapshot, prompt, provider,
                   attempts, output, judgment, harvestVars, outsideEngine>>

\* the engine is ready for the next request
Idle ==
    /\ pipeline' = "Idle"
    /\ caller' = "none"
    /\ request' = NoRequest
    /\ camera' = "none"
    /\ snapshot' = "stale"
    /\ prompt' = NoPrompt
    /\ provider' = 0
    /\ attempts' = <<>>
    /\ output' = NoOutput
    /\ judgment' = NoJudgment
    /\ response' = NoResponse

\* --------------------------------------- the callers of the engine
\* POST /api/ai/consultation {question, tag, image}
Consult(requests) ==
    /\ \E r \in requests : Receive("consultation", r)
    /\ UNCHANGED <<harvestVars, outsideEngine>>

\* the response of a consultation reaches its client
ConsultSettles ==
    /\ pipeline \in {"Completed", "Rejected"}
    /\ caller = "consultation"
    /\ Idle
    /\ UNCHANGED <<harvestVars, outsideEngine>>

\* DashboardManager.updateHarvestStatus up to its await:
\* POST /api/ai/harvest-judgment
UpdateHarvestStatus ==
    /\ Receive("updateHarvestStatus", Request("harvest", "", "none"))
    /\ UNCHANGED <<harvestVars, outsideEngine>>

\* DashboardManager.updateHarvestStatus after its await
HarvestSettles ==
    /\ pipeline \in {"Completed", "Rejected"}
    /\ caller = "updateHarvestStatus"
    /\ \E lost \in BOOLEAN :
           harvestPanel' = harvestSettles(harvestPanel, response, lost)
    /\ Idle
    /\ UNCHANGED <<harvestCard, outsideEngine>>

\* DashboardManager.checkHarvest (first version) up to its await, from a
\* click on #harvest-check-btn
CheckHarvest ==
    /\ Receive("checkHarvest", Request("harvest", "", "none"))
    /\ harvestCard.errors < MaxErrorBlocks
    /\ harvestCard' = showLoading(harvestCard)
    /\ UNCHANGED <<harvestPanel, outsideEngine>>

\* DashboardManager.checkHarvest (first version) after its await
CheckSettles ==
    /\ pipeline \in {"Completed", "Rejected"}
    /\ caller = "checkHarvest"
    /\ \E lost \in BOOLEAN :
           harvestCard' = checkSettles(harvestCard, response, lost)
    /\ Idle
    /\ UNCHANGED <<harvestPanel, outsideEngine>>

\* ------------------------------------------------ water tank manager
tank_capacity == 2000

min(a, b) == IF a <= b THEN a ELSE b
max(a, b) == IF a >= b THEN a ELSE b

\* WaterTankManager.__init__
TankConstructed ==
    /\ current_volume = 2000
    /\ water_usage_history = <<>>
    /\ tank_status = <<>>
    /\ remaining = <<>>
    /\ tankCalls = 0

\* Calls of the tank manager in one behaviour.
MaxTankCalls == 3

\* _save_tank_status
SaveTankStatus == tank_status' = <<current_volume'>>

\* WaterTankManager.set_initial_volume
set_initial_volume(volumes) ==
    /\ tankCalls < MaxTankCalls
    /\ tankCalls' = tankCalls + 1
    /\ \E volume \in volumes :
           current_volume' = min(volume, tank_capacity)
    /\ SaveTankStatus
    /\ UNCHANGED <<water_usage_history, remaining>>

\* WaterTankManager.calculate_remaining_volume
calculate_remaining_volume(amounts) ==
    /\ tankCalls < MaxTankCalls
    /\ tankCalls' = tankCalls + 1
    /\ \E watering_amount \in amounts :
         /\ current_volume' = max(0, current_volume - watering_amount)
         /\ water_usage_history' =
                Append(water_usage_history,
                       [amount |-> watering_amount,
                        remaining |-> current_volume'])
    /\ SaveTankStatus
    /\ remaining' = <<current_volume'>>

\* WaterTankManager.refill_tank
refill_tank(amounts) ==
    /\ tankCalls < MaxTankCalls
    /\ tankCalls' = tankCalls + 1
    /\ \E amount \in amounts :
           current_volume' = min(current_volume + amount, tank_capacity)
    /\ SaveTankStatus
    /\ UNCHANGED <<water_usage_history, remaining>>

\* the integer arguments of the calls: negative, zero, a usual watering,
\* more than the tank holds
TankAmounts == {0 - 500, 0, 300, 2500}

NextTank ==
    \/ set_initial_volume(TankAmounts)
       /\ UNCHANGED <<pageVars, engineVars, harvestVars, dashVars>>
    \/ calculate_remaining_volume(TankAmounts)
       /\ UNCHANGED <<pageVars, engineVars, harvestVars, dashVars>>
    \/ refill_tank(TankAmounts)
       /\ UNCHANGED <<pageVars, engineVars, harvestVars, dashVars>>

\* -------------------------------------- dashboard: DashboardManager
\* the sensor and latest-image elements the manager writes are not part of
\* the state; no code reads them back

\* temperatureChart: <<>> for null, else the chart in a sequence, with the
\* lengths of data.labels and datasets[0].data, and how many of the points
\* at the end of the data are live datapoints
Chart(labels, data, live) ==
    <<[labels |-> labels, data |-> data, live |-> live]>>

\* constructor
DashboardConstructed ==
    /\ isInitialized = FALSE
    /\ updateTimer = 0
    /\ isUpdating = FALSE
    /\ temperatureChart = <<>>
    /\ historyLoaded = FALSE
    /\ timers = {}
    /\ statusInFlight = 0
    /\ historyInFlight = 0
    /\ harvestInFlight = 0
    /\ lastCall = "none"
    /\ tick = FALSE
    /\ lastInit = "none"

\* Requests of one kind the model lets be in flight together.
MaxInFlight == 2
\* Interval timers the browser can hold in the model.
MaxTimers == 2

\* a stopAutoUpdate that forgets the interval without clearing it
stopAutoUpdate_Forgets(active, timer) == active

\* stopAutoUpdate: the intervals left running (updateTimer becomes null)
stopAutoUpdate(active, timer) ==
    IF timer # 0 THEN active \ {timer} ELSE active

\* the id setInterval gives to a new interval: one that is not in `used`
setInterval(used) == CHOOSE id \in 1..MaxTimers : id \notin used

\* the browser has an id left that no running interval has and that differs
\* from the one the manager held last
canSetInterval == \E id \in 1..MaxTimers : id \notin timers \cup {updateTimer}

\* an updateSystemStatus without the isUpdating guard
startsUpdate_Always(updating) == TRUE

\* updateSystemStatus: `if (this.isUpdating) return;`
startsUpdate(updating) == ~updating

\* updateSystemStatus up to its await
updateSystemStatus ==
    IF startsUpdate(isUpdating)
    THEN /\ isUpdating' = TRUE
         /\ statusInFlight' = statusInFlight + 1
         /\ lastCall' = "issued"
    ELSE /\ UNCHANGED <<isUpdating, statusInFlight>>
         /\ lastCall' = "skipped"

\* the startAutoUpdate of the first version of the script, which sets a
\* new interval and leaves the old one running
startAutoUpdate_NoStop ==
    /\ updateTimer' = setInterval(timers \cup {updateTimer})
    /\ timers' = timers \cup {updateTimer'}

\* startAutoUpdate
startAutoUpdate ==
    LET left == stopAutoUpdate(timers, updateTimer)
    IN  /\ updateTimer' = setInterval(left \cup {updateTimer})
        /\ timers' = left \cup {updateTimer'}

\* DashboardManager.initialize
DashboardInitialize ==
    /\ statusInFlight < MaxInFlight
    /\ historyInFlight < MaxInFlight
    /\ harvestInFlight < MaxInFlight
    /\ canSetInterval
    /\ IF isInitialized
       THEN /\ lastInit' = "skipped"
            /\ UNCHANGED <<isInitialized, updateTimer, isUpdating,
                           temperatureChart, historyLoaded, timers,
                           statusInFlight, historyInFlight,
                           harvestInFlight, lastCall, tick>>
       ELSE /\ isInitialized' = TRUE
            /\ \E canvas \in BOOLEAN :
                 IF canvas
                 THEN /\ temperatureChart' = Chart(0, 0, 0)
                      /\ historyInFlight' = IF historyLoaded
                                            THEN historyInFlight
                                            ELSE historyInFlight + 1
                 ELSE UNCHANGED <<temperatureChart, historyInFlight>>
            /\ updateSystemStatus
            /\ harvestInFlight' = harvestInFlight + 1
            /\ startAutoUpdate
            /\ UNCHANGED <<historyLoaded, tick>>
            /\ lastInit' = "full"
    /\ UNCHANGED <<pageVars, engineVars, harvestVars, tankVars>>

\* a call of updateSystemStatus from outside the timer
UpdateSystemStatus ==
    /\ statusInFlight < MaxInFlight
    /\ updateSystemStatus
    /\ UNCHANGED <<isInitialized, updateTimer, temperatureChart,
                   historyLoaded, timers, historyInFlight, harvestInFlight,
                   tick, lastInit>>
    /\ UNCHANGED <<pageVars, engineVars, harvestVars, tankVars>>

\* a call of startAutoUpdate
StartAutoUpdate ==
    /\ canSetInterval
    /\ startAutoUpdate
    /\ UNCHANGED <<isInitialized, isUpdating, temperatureChart,
                   historyLoaded, statusInFlight, historyInFlight,
                   harvestInFlight, lastCall, tick, lastInit>>
    /\ UNCHANGED <<pageVars, engineVars, harvestVars, tankVars>>

\* a call of stopAutoUpdate
StopAutoUpdate ==
    /\ timers' = stopAutoUpdate(timers, updateTimer)
    /\ updateTimer' = 0
    /\ UNCHANGED <<isInitialized, isUpdating, temperatureChart,
                   historyLoaded, statusInFlight, historyInFlight,
                   harvestInFlight, lastCall, tick, lastInit>>
    /\ UNCHANGED <<pageVars, engineVars, harvestVars, tankVars>>

\* cleanup: stopAutoUpdate, destroyChart, the two flags
Cleanup ==
    /\ timers' = stopAutoUpdate(timers, updateTimer)
    /\ updateTimer' = 0
    /\ temperatureChart' = <<>>
    /\ isInitialized' = FALSE
    /\ historyLoaded' = FALSE
    /\ UNCHANGED <<isUpdating, statusInFlight, historyInFlight,
                   harvestInFlight, lastCall, tick, lastInit>>
    /\ UNCHANGED <<pageVars, engineVars, harvestVars, tankVars>>

\* the callback of an interval the browser still runs
TimerFires ==
    /\ \E id \in timers :
         /\ statusInFlight < MaxInFlight
         /\ tick' = ~tick
         /\ IF ~isUpdating
            THEN /\ updateSystemStatus
                 /\ \E lucky \in BOOLEAN :
                        harvestInFlight' =
                            IF lucky /\ harvestInFlight < MaxInFlight
                            THEN harvestInFlight + 1 ELSE harvestInFlight
            ELSE UNCHANGED <<isUpdating, statusInFlight, lastCall,
                             harvestInFlight>>
    /\ UNCHANGED <<isInitialized, updateTimer, temperatureChart,
                   historyLoaded, timers, historyInFlight, lastInit>>
    /\ UNCHANGED <<pageVars, engineVars, harvestVars, tankVars>>

\* chart.data after addDatapointToChart: a push, and a shift beyond 24
addDatapointToChart(chart) ==
    IF Len(chart) = 0 THEN chart
    ELSE LET labels == chart[1].labels + 1
             data == chart[1].data + 1
             live == chart[1].live + 1
         IN  IF labels > 24
             THEN Chart(labels - 1, data - 1, min(live, data - 1))
             ELSE Chart(labels, data, live)

\* an updateSystemStatus that resets isUpdating at the end of its try
\* block and not in a finally block
settledIsUpdating_TryOnly(outcome) == outcome = "failure"

\* updateSystemStatus: `finally { this.isUpdating = false; }`, the value of
\* isUpdating after the request has settled with `outcome`
settledIsUpdating(outcome) == FALSE

\* updateSystemStatus after its await: the sensor data arrive with or
\* without a temperature, or the request fails; isUpdating is released
SensorDataArrives(outcomes) ==
    /\ statusInFlight > 0
    /\ statusInFlight' = statusInFlight - 1
    /\ \E outcome \in outcomes :
         /\ temperatureChart' =
                IF outcome = "temperature" /\ historyLoaded
                THEN addDatapointToChart(temperatureChart)
                ELSE temperatureChart
         /\ isUpdating' = settledIsUpdating(outcome)
    /\ UNCHANGED <<isInitialized, updateTimer, historyLoaded, timers,
                   historyInFlight, harvestInFlight, lastCall, tick, lastInit>>
    /\ UNCHANGED <<pageVars, engineVars, harvestVars, tankVars>>

\* updateChartData(history): the chart takes the points of the history
updateChartData(chart, points) ==
    IF Len(chart) = 0 \/ points = 0 THEN chart ELSE Chart(points, points, 0)

\* loadSampleData makes 24 points
SamplePoints == 24

\* loadTemperatureHistory after its await: the number of entries of the
\* history in a sequence, or the empty sequence when there is none or the
\* request failed, and the sample data are taken
HistoryArrives(histories) ==
    /\ historyInFlight > 0
    /\ historyInFlight' = historyInFlight - 1
    /\ \E history \in histories :
           temperatureChart' =
               updateChartData(temperatureChart,
                               IF Len(history) = 0 THEN SamplePoints
                               ELSE history[1])
    /\ historyLoaded' = TRUE
    /\ UNCHANGED <<isInitialized, updateTimer, isUpdating, timers,
                   statusInFlight, harvestInFlight, lastCall, tick, lastInit>>
    /\ UNCHANGED <<pageVars, engineVars, harvestVars, tankVars>>

\* updateHarvestStatus after its await, with the response of the endpoint
HarvestArrives(responses) ==
    /\ harvestInFlight > 0
    /\ harvestInFlight' = harvestInFlight - 1
    /\ \E data \in responses, lost \in BOOLEAN :
           harvestPanel' = harvestSettles(harvestPanel, data, lost)
    /\ UNCHANGED <<isInitialized, updateTimer, isUpdating, temperatureChart,
                   historyLoaded, timers, statusInFlight, historyInFlight,
                   lastCall, tick, lastInit>>
    /\ UNCHANGED <<pageVars, engineVars, harvestCard, tankVars>>

\* what the harvest endpoint answers to the dashboard in the dashboard's
\* specification: a judgment, or an input error
DashboardResponses ==
    {successResponse("harvest", fallback("harvest", "mature"), TRUE),
     errorResponse("missing image")}

\* what the history request may bring: a history of 3 entries, or none
\* (no history, or a failure)
Histories == {<<3>>, <<>>}

\* the same with a history of 25 entries
LongHistories == {<<25>>, <<>>}

\* how a status request may settle: sensor data with or without a
\* temperature, or a failure
SensorOutcomes == {"temperature", "no temperature", "failure"}

NextDashboard ==
    \/ DashboardInitialize
    \/ UpdateSystemStatus
    \/ StartAutoUpdate
    \/ StopAutoUpdate
    \/ Cleanup
    \/ TimerFires
    \/ SensorDataArrives(SensorOutcomes)
    \/ HistoryArrives(Histories)
    \/ HarvestArrives(DashboardResponses)

\* ---------------------------------------------------------------- Init
\* the page after its scripts ran (the constructors), with `item` in
\* localStorage
\* the consultation tags the API documents
ConsultationTags == {"general", "harvest", "disease", "cooking"}

\* the tag list of the page as it is served: one .tag-item for each tag,
\* none of them active
TemplateTagItems == [shown |-> ConsultationTags, active |-> {}]

\* AIConsultationManager.selectTag: 'active' is removed from every
\* .tag-item and added to the element whose data-tag is the tag, if any
selectTag(tag) ==
    /\ selectedTag' = tag
    /\ tagItems' = [tagItems EXCEPT
                       !.active = IF tag \in tagItems.shown THEN {tag} ELSE {}]

\* AIConsultationManager.updateTagsDisplay: #tags-container is rendered
\* again, one .tag-item for each tag of the response
updateTagsDisplay(tags) == [shown |-> tags, active |-> {}]

Constructed(item) ==
    /\ phase = "constructed"
    /\ chatHistory = <<>>
    /\ selectedTag = "general"
    /\ stored = item
    /\ consoleLog = <<>>
    /\ historyPanel = [kind |-> "template", items |-> <<>>]
    /\ chat = <<>>
    /\ notification = NoNotification
    /\ questionInput = EmptyText
    /\ attachedImage = NoImage
    /\ req = [r \in Requests |-> NoReq]
    /\ now = 0
    /\ added = {}
    /\ tagItems = TemplateTagItems
    /\ tagsRequest = "none"

\* the first visit: nothing is stored yet
Init ==
    /\ Constructed(NoItem)
    /\ EngineIdle /\ HarvestTemplate
    /\ DashboardConstructed /\ TankConstructed

\* a visit after a session of PreFill successful consultations
InitCap ==
    /\ Constructed(Item(stringify(PastHistory(PreFill))))
    /\ EngineIdle /\ HarvestTemplate
    /\ DashboardConstructed /\ TankConstructed

\* ------------------------------------------------------------- actions
\* DOMContentLoaded: aiConsultationManager.initialize()
Initialize ==
    /\ phase = "constructed"
    /\ phase' = "ready"
    /\ chatHistory' = storageGet(stored, <<>>)
    /\ historyPanel' = updateHistoryDisplay(chatHistory')
    /\ tagsRequest' = "inflight"
    /\ selectTag("general")
    /\ added' = {r \in Requests :
                   /\ req[r].state = "success"
                   /\ \E i \in 1..Len(chatHistory') :
                          chatHistory'[i].question = req[r].question}
    /\ UNCHANGED <<stored, consoleLog, chat, notification,
                   questionInput, attachedImage, req, now>>

\* a type check that accepts every file
startsWithImage_Any(type) == TRUE

\* file.type.startsWith('image/')
startsWithImage(type) == type \in {"image/png", "image/jpeg"}

\* ImageAttachment.handleImageSelect
HandleImageSelect(files) ==
    /\ phase = "ready"
    /\ \E file \in files :
         IF file.size > MaxImageBytes
         THEN /\ notification' = [message |-> "image too large", type |-> "warning"]
              /\ UNCHANGED attachedImage
         ELSE IF ~startsWithImage(file.type)
         THEN /\ notification' = [message |-> "not an image", type |-> "warning"]
              /\ UNCHANGED attachedImage
         ELSE /\ attachedImage' = file
              /\ UNCHANGED notification
    /\ UNCHANGED <<tagItems, tagsRequest, phase, chatHistory, selectedTag, stored,
                   consoleLog, historyPanel, chat, questionInput, req, now, added>>

\* ImageAttachment.removeImage
removeImage == NoImage

RemoveImage ==
    /\ phase = "ready"
    /\ attachedImage # NoImage
    /\ attachedImage' = removeImage
    /\ UNCHANGED <<tagItems, tagsRequest, phase, chatHistory, selectedTag, stored,
                   consoleLog, historyPanel, chat, notification,
                   questionInput, req, now, added>>

\* AIConsultationManager.selectTag, from a click on a .tag-item
SelectTag(tags) ==
    /\ phase = "ready"
    /\ \E tag \in tags : selectTag(tag)
    /\ UNCHANGED <<tagsRequest, phase, chatHistory, stored, consoleLog,
                   historyPanel, chat, notification, questionInput,
                   attachedImage, req, now, added>>

\* the check of the script's first version: !question
rejectsInput_QuestionOnly(question, image) == question = EmptyText

\* !question && !attachedImage
rejectsInput(question, image) == question = EmptyText /\ image = NoImage

\* AIConsultationManager.sendQuestion up to its first await, run by a
\* click on #send-question-btn or by Enter, with `typed` in #question-input
\* (nothing but sendQuestion and executeQuickAction reads or writes the
\* field, so typing is not a step of its own). `tag` is this.selectedTag
\* when the function runs.
sendQuestionWith(typed, tag) ==
    /\ phase = "ready"
    /\ LET question == trim(typed)
           r == NextReq
       IN  IF rejectsInput(question, attachedImage)
           THEN /\ notification' = [message |-> "enter a question or attach an image",
                                    type |-> "warning"]
                /\ questionInput' = typed
                /\ UNCHANGED <<chat, req>>
           ELSE /\ r \in Requests
                /\ chat' = addMessageToChat(
                              addMessageToChat(chat,
                                  Message("user", <<"question", question>>, FALSE, FALSE, r)),
                              Message("ai", <<"loading">>, TRUE, FALSE, r))
                /\ questionInput' = EmptyText
                /\ req' = [req EXCEPT ![r] = [state |-> "inflight",
                                              question |-> question,
                                              image |-> attachedImage,
                                              tag |-> tag,
                                              write |-> "none"]]
                /\ UNCHANGED notification
    /\ UNCHANGED <<tagsRequest, phase, chatHistory, stored,
                   consoleLog, historyPanel, attachedImage, now, added>>

sendQuestion(typed) ==
    /\ sendQuestionWith(typed, selectedTag)
    /\ UNCHANGED <<selectedTag, tagItems>>

\* the catch block of sendQuestion
CatchError(r, message) ==
    /\ chat' = addMessageToChat(removeLastMessage(chat),
                    Message("ai", <<"error", message>>, FALSE, TRUE, r))
    /\ notification' = [message |-> "consultation failed", type |-> "danger"]
    /\ req' = [req EXCEPT ![r].state = "thrown"]
    /\ UNCHANGED <<tagItems, tagsRequest, phase, chatHistory, selectedTag, stored,
                   consoleLog, historyPanel, questionInput, attachedImage, now, added>>

SendQuestion(texts) == \E typed \in texts : sendQuestion(typed)

\* the actions executeQuickAction has a question for
QuickActions == {"harvest", "disease", "cooking"}

\* a switch whose default case does not return
isQuickAction_Any(action) == TRUE

\* the switch of executeQuickAction: the default case returns
isQuickAction(action) == action \in QuickActions

\* the question of each case of the switch ('' before the switch)
presetQuestion(action) ==
    IF action = "harvest" THEN Text(101, FALSE)
    ELSE IF action = "disease" THEN Text(102, FALSE)
    ELSE IF action = "cooking" THEN Text(103, FALSE)
    ELSE EmptyText

\* AIConsultationManager.executeQuickAction up to the first await of the
\* sendQuestion it calls: the question is put into #question-input, the
\* tag is selected, and sendQuestion reads both
executeQuickAction(action) ==
    /\ phase = "ready"
    /\ IF isQuickAction(action)
       THEN /\ selectTag(action)
            /\ sendQuestionWith(presetQuestion(action), action)
       ELSE UNCHANGED pageVars

\* a click on a .quick-action-btn with data-action `action`
ExecuteQuickAction(actions) == \E action \in actions : executeQuickAction(action)

\* fetch rejects (network error) or response.json() rejects (the body is
\* not JSON): the catch block runs
RequestThrows ==
    \E r \in Requests :
        /\ InFlight(r)
        /\ CatchError(r, "rejected")

\* fetch and response.json() resolve, with data.status === 'success' and
\* the answer the API documents for it; the clock is read by addToHistory,
\* `elapsed` after it was last read, and localStorage.setItem throws when
\* `full`
CompleteSuccess ==
    \E r \in Requests :
        /\ InFlight(r)
        /\ \E elapsed \in {0, 1}, full \in BOOLEAN :
           LET answer == "answer"
               date == now + elapsed
               answered == addMessageToChat(removeLastMessage(chat),
                              Message("ai", <<"answer", answer>>, FALSE, FALSE, r))
               history == addToHistory(chatHistory, date, req[r].question,
                                       answer, selectedTag)
               written == storageSet(stored, history, full)
               write == IF full THEN "failed" ELSE "ok"
           IN  /\ date <= MaxClock
               /\ now' = date
               /\ chatHistory' = history
               /\ stored' = written.item
               /\ consoleLog' = consoleLog \o written.logged
               /\ added' = added \cup {r}
               /\ IF written.threw
                  THEN \* the catch block
                       /\ chat' = addMessageToChat(removeLastMessage(answered),
                              Message("ai", <<"error", "rejected">>, FALSE, TRUE, r))
                       /\ notification' = [message |-> "consultation failed",
                                           type |-> "danger"]
                       /\ req' = [req EXCEPT ![r].state = "thrown",
                                             ![r].write = write]
                       /\ UNCHANGED attachedImage
                  ELSE /\ chat' = answered
                       /\ notification' = [message |-> "consultation completed",
                                           type |-> "success"]
                       /\ attachedImage' = removeImage
                       /\ req' = [req EXCEPT ![r].state = "success",
                                             ![r].write = write]
        /\ UNCHANGED <<tagItems, tagsRequest, phase, selectedTag, historyPanel, questionInput>>

\* a sendQuestion that calls addToHistory whatever the status is
CompleteError_Adds ==
    \E r \in Requests :
        /\ InFlight(r)
        /\ chat' = addMessageToChat(removeLastMessage(chat),
                        Message("ai", <<"error", "status">>, FALSE, TRUE, r))
        /\ notification' = [message |-> "consultation failed", type |-> "danger"]
        /\ attachedImage' = removeImage
        /\ req' = [req EXCEPT ![r].state = "error"]
        /\ chatHistory' = addToHistory(chatHistory, now, req[r].question,
                                       Undefined, selectedTag)
        /\ stored' = storageSet(stored, chatHistory', FALSE).item
        /\ UNCHANGED <<tagItems, tagsRequest, phase, selectedTag, consoleLog, historyPanel,
                       questionInput, now, added>>

\* fetch and response.json() resolve, with any other data.status
CompleteError ==
    \E r \in Requests :
        /\ InFlight(r)
        /\ chat' = addMessageToChat(removeLastMessage(chat),
                        Message("ai", <<"error", "status">>, FALSE, TRUE, r))
        /\ notification' = [message |-> "consultation failed", type |-> "danger"]
        /\ attachedImage' = removeImage
        /\ req' = [req EXCEPT ![r].state = "error"]
        /\ UNCHANGED <<tagItems, tagsRequest, phase, chatHistory, selectedTag, stored,
                       consoleLog, historyPanel, questionInput, now, added>>

\* AIConsultationManager.clearHistory
ClearHistory ==
    /\ phase = "ready"
    /\ chatHistory' = <<>>
    /\ stored' = storageRemove(stored)
    /\ historyPanel' = updateHistoryDisplay(chatHistory')
    /\ notification' = [message |-> "history cleared", type |-> "info"]
    /\ added' = {}
    /\ UNCHANGED <<tagItems, tagsRequest, phase, selectedTag, consoleLog, chat,
                   questionInput, attachedImage, req, now>>

\* The browser reloads the page: the scripts run again (the constructors),
\* the document is the template again, and the requests of the page that
\* went away never call back.
Reload ==
    /\ phase = "ready"
    /\ phase' = "constructed"
    /\ chatHistory' = <<>>
    /\ selectedTag' = "general"
    /\ consoleLog' = <<>>
    /\ added' = {}
    /\ historyPanel' = [kind |-> "template", items |-> <<>>]
    /\ chat' = <<>>
    /\ notification' = NoNotification
    /\ questionInput' = EmptyText
    /\ attachedImage' = NoImage
    /\ req' = [r \in Requests |->
                 IF InFlight(r) THEN [req[r] EXCEPT !.state = "aborted"]
                 ELSE req[r]]
    /\ tagItems' = TemplateTagItems
    /\ tagsRequest' = "none"
    /\ UNCHANGED <<stored, now>>

\* AIConsultationManager.loadAvailableTags after its await: the tag list
\* is rendered again when the status is success; a rejected call is logged
LoadAvailableTagsSettles(responses) ==
    /\ phase = "ready"
    /\ tagsRequest = "inflight"
    /\ tagsRequest' = "settled"
    /\ \E data \in responses :
         IF data.status = "success"
         THEN /\ tagItems' = updateTagsDisplay(data.tags)
              /\ UNCHANGED consoleLog
         ELSE IF data.status = "rejected"
         THEN /\ consoleLog' = Append(consoleLog, "loadAvailableTags")
              /\ UNCHANGED tagItems
         ELSE UNCHANGED <<tagItems, consoleLog>>
    /\ UNCHANGED <<phase, chatHistory, selectedTag, stored, historyPanel, chat,
                   notification, questionInput, attachedImage, req, now, added>>


\* ------------------------------------------------------ specification
\* what the user types before sending: blanks only, or a new question
QuestionTexts == {Text(0, TRUE), Text(NextReq, TRUE)}
\* the data-tag of the element clicked (undefined: the element has none)
TagChoices == {"harvest", Undefined}

Next ==
    \/ Initialize /\ UNCHANGED <<engineVars, harvestVars, dashVars, tankVars>>
    \/ SelectTag(TagChoices) /\ UNCHANGED <<engineVars, harvestVars, dashVars, tankVars>>
    \/ SendQuestion(QuestionTexts) /\ UNCHANGED <<engineVars, harvestVars, dashVars, tankVars>>
    \/ RequestThrows /\ UNCHANGED <<engineVars, harvestVars, dashVars, tankVars>>
    \/ CompleteSuccess /\ UNCHANGED <<engineVars, harvestVars, dashVars, tankVars>>
    \/ CompleteError /\ UNCHANGED <<engineVars, harvestVars, dashVars, tankVars>>
    \/ ClearHistory /\ UNCHANGED <<engineVars, harvestVars, dashVars, tankVars>>
    \/ Reload /\ UNCHANGED <<engineVars, harvestVars, dashVars, tankVars>>

Spec == Init /\ [][Next]_vars

\* the same page with a history that is about to reach its capacity
NextCap ==
    \/ Initialize /\ UNCHANGED <<engineVars, harvestVars, dashVars, tankVars>>
    \/ SelectTag({Undefined}) /\ UNCHANGED <<engineVars, harvestVars, dashVars, tankVars>>
    \/ SendQuestion({Text(NextReq, TRUE)}) /\ UNCHANGED <<engineVars, harvestVars, dashVars, tankVars>>
    \/ RequestThrows /\ UNCHANGED <<engineVars, harvestVars, dashVars, tankVars>>
    \/ CompleteSuccess /\ UNCHANGED <<engineVars, harvestVars, dashVars, tankVars>>
    \/ CompleteError /\ UNCHANGED <<engineVars, harvestVars, dashVars, tankVars>>
    \/ ClearHistory /\ UNCHANGED <<engineVars, harvestVars, dashVars, tankVars>>
    \/ Reload /\ UNCHANGED <<engineVars, harvestVars, dashVars, tankVars>>

SpecCap == InitCap /\ [][NextCap]_vars

\* the files the user may pick in the file dialog: an image of exactly
\* 5 MiB, an image one byte larger, and a small file that is no image
ImageFiles ==
    {[size |-> MaxImageBytes, type |-> "image/png"],
     [size |-> MaxImageBytes + 1, type |-> "image/jpeg"],
     [size |-> 1, type |-> "text/plain"]}

\* the page used with the image attachment, the tag left as it is
NextImage ==
    \/ Initialize /\ UNCHANGED <<engineVars, harvestVars, dashVars, tankVars>>
    \/ HandleImageSelect(ImageFiles) /\ UNCHANGED <<engineVars, harvestVars, dashVars, tankVars>>
    \/ RemoveImage /\ UNCHANGED <<engineVars, harvestVars, dashVars, tankVars>>
    \/ SendQuestion(QuestionTexts) /\ UNCHANGED <<engineVars, harvestVars, dashVars, tankVars>>
    \/ RequestThrows /\ UNCHANGED <<engineVars, harvestVars, dashVars, tankVars>>
    \/ CompleteSuccess /\ UNCHANGED <<engineVars, harvestVars, dashVars, tankVars>>
    \/ CompleteError /\ UNCHANGED <<engineVars, harvestVars, dashVars, tankVars>>

SpecImage == Init /\ [][NextImage]_vars

\* what GET /api/ai/tags may answer: the four tags, fewer tags, an error
\* status, or nothing (the call is rejected)
TagsResponses ==
    {[status |-> "success", tags |-> ConsultationTags],
     [status |-> "success", tags |-> {"general", "harvest"}],
     [status |-> "success", tags |-> {"harvest"}],
     [status |-> "error", tags |-> {}],
     [status |-> "rejected", tags |-> {}]}

\* the page with its tag list
NextTags ==
    \/ Initialize /\ UNCHANGED <<engineVars, harvestVars, dashVars, tankVars>>
    \/ SelectTag(TagChoices) /\ UNCHANGED <<engineVars, harvestVars, dashVars, tankVars>>
    \/ LoadAvailableTagsSettles(TagsResponses) /\ UNCHANGED <<engineVars, harvestVars, dashVars, tankVars>>
    \/ SendQuestion(QuestionTexts) /\ UNCHANGED <<engineVars, harvestVars, dashVars, tankVars>>
    \/ RequestThrows /\ UNCHANGED <<engineVars, harvestVars, dashVars, tankVars>>
    \/ Reload /\ UNCHANGED <<engineVars, harvestVars, dashVars, tankVars>>

SpecTags == Init /\ [][NextTags]_vars

\* the data-action of the button clicked: one of the three the switch
\* knows, another tag, or undefined (the element has none)
ActionChoices == QuickActions \cup {"general", Undefined}

\* the page used through its quick-action buttons
NextQuick ==
    \/ Initialize /\ UNCHANGED <<engineVars, harvestVars, dashVars, tankVars>>
    \/ ExecuteQuickAction(ActionChoices) /\ UNCHANGED <<engineVars, harvestVars, dashVars, tankVars>>
    \/ SendQuestion(QuestionTexts) /\ UNCHANGED <<engineVars, harvestVars, dashVars, tankVars>>
    \/ RequestThrows /\ UNCHANGED <<engineVars, harvestVars, dashVars, tankVars>>
    \/ CompleteError /\ UNCHANGED <<engineVars, harvestVars, dashVars, tankVars>>
    \/ Reload /\ UNCHANGED <<engineVars, harvestVars, dashVars, tankVars>>

SpecQuick == Init /\ [][NextQuick]_vars

\* ------------------------------------------- engine: specification
\* the harvest records a provider may put in its answer: confidence below,
\* at the ends of, above [0,1], or missing
HarvestRecords ==
    {[harvestReady |-> r, confidence |-> c, recommendation |-> "advice",
      daysRemaining |-> d] :
        r \in BOOLEAN, c \in {0 - 1, 0, One, One + 1}, d \in {0, 2}}
    \cup {[harvestReady |-> FALSE, recommendation |-> "advice",
           daysRemaining |-> 2]}
OtherRecords ==
    [general |-> {[answer |-> "advice", confidence |-> 8500],
                  [answer |-> "", confidence |-> 8500],
                  [answer |-> "advice"]},
     disease |-> {[diseaseDetected |-> "mildew", confidence |-> 8500],
                  [diseaseDetected |-> "mildew", confidence |-> One + 1]},
     cooking |-> {[recommendedDishes |-> <<"namul">>],
                  [recommendedDishes |-> <<>>]}]

\* what a provider may answer to the prompt in flight
RawOutputs ==
    LET tag == resolveTag(request.tag)
        records == IF tag = "harvest" THEN HarvestRecords
                   ELSE OtherRecords[tag]
    IN  {Raw("json", rec) : rec \in records}
        \cup {Raw("fenced", rec) : rec \in records}
        \cup {Raw("prose", NoJudgment)}

\* the requests a client of /api/ai/consultation may post
ConsultationRequests ==
    {Request(t, q, i) : t \in Tags \cup {Undefined},
                        q \in {"", "question"},
                        i \in {"none", "image"}}

\* the failures the providers show in the specification: one transient,
\* one not
FailureKinds == {"timeout", "auth"}

NextEngine ==
    \/ Consult(ConsultationRequests)
    \/ ConsultSettles
    \/ GatherInputs
    \/ ComposePrompt
    \/ InvokeProvider
    \/ ProviderFails(FailureKinds)
    \/ DeadlineReached
    \/ ProviderAnswers(RawOutputs)
    \/ ApplyFallback
    \/ Complete

\* every step of the pipeline is taken in the end, and a call in flight
\* ends: with an answer, a failure, or the deadline
EngineFairness ==
    /\ WF_vars(GatherInputs)
    /\ WF_vars(ComposePrompt)
    /\ WF_vars(InvokeProvider)
    /\ WF_vars(ProviderFails(FailureKinds) \/ DeadlineReached
               \/ ProviderAnswers(RawOutputs))
    /\ WF_vars(ApplyFallback)
    /\ WF_vars(Complete)

SpecEngine == Init /\ [][NextEngine]_vars /\ EngineFairness

\* the dashboard asks for harvest judgments, by its timer and by its button
NextHarvest ==
    \/ UpdateHarvestStatus
    \/ HarvestSettles
    \/ CheckHarvest
    \/ CheckSettles
    \/ GatherInputs
    \/ ComposePrompt
    \/ InvokeProvider
    \/ ProviderFails({"auth"})
    \/ ProviderAnswers(RawOutputs)
    \/ ApplyFallback
    \/ Complete

SpecHarvest == Init /\ [][NextHarvest]_vars

SpecDashboard == Init /\ [][NextDashboard]_vars

\* the dashboard with a sensor history of more entries than a day has hours
NextChart ==
    \/ DashboardInitialize
    \/ UpdateSystemStatus
    \/ StartAutoUpdate
    \/ StopAutoUpdate
    \/ Cleanup
    \/ TimerFires
    \/ SensorDataArrives(SensorOutcomes)
    \/ HistoryArrives(LongHistories)
    \/ HarvestArrives(DashboardResponses)

SpecChart == Init /\ [][NextChart]_vars

\* a status request in flight settles in the end, by a response or by an
\* error of the network
SpecDashboardLive ==
    /\ Init /\ [][NextDashboard]_vars
    /\ WF_vars(SensorDataArrives(SensorOutcomes))

SpecTank == Init /\ [][NextTank]_vars

\* -------------------------------------------------------------- claims
Questions(h) == [i \in 1..Len(h) |-> h[i].question.body]
Completing(r) == InFlight(r) /\ req'[r].state = "success"
\* the entry the completion of request r writes
EntryOf(r, item) ==
    /\ Field(item, "question") = req[r].question
    /\ Field(item, "answer") = "answer"
    /\ Field(item, "tag") = selectedTag
    /\ Field(item, "timestamp") = now'

\* C1: in every reachable state chatHistory holds at most 50 entries (and
\* so does the copy in localStorage).
C1_SizeAtMost50 ==
    /\ Len(chatHistory) <= maxHistoryLength
    /\ Len(storageGet(stored, <<>>)) <= maxHistoryLength

\* the limit has applied: the page holds 50 entries after more than 50
\* consultations, the oldest of which is gone
C1_Witness ==
    /\ Len(chatHistory) = maxHistoryLength
    /\ Cardinality(added) + PreFill > maxHistoryLength
    /\ \A i \in 1..Len(chatHistory) : chatHistory[i].question.body # 0 - PreFill

\* C2: an addToHistory on a history of 50 entries leaves 50 entries: the
\* new entry first, then the 49 newest of the old entries in their old
\* order, and the oldest old entry nowhere.  So the entries of the previous
\* session that are still there are its newest ones, in their old order, at
\* the end of the history (after 51 consultations in a row: entries 2 to 51,
\* newest first).
C2_EvictionStep ==
    \A r \in Requests :
        (Completing(r) /\ Len(chatHistory) = maxHistoryLength) =>
            /\ Len(chatHistory') = maxHistoryLength
            /\ EntryOf(r, chatHistory'[1])
            /\ \A i \in 1..(maxHistoryLength - 1) :
                   chatHistory'[i + 1] = chatHistory[i]
            /\ \A i \in 1..maxHistoryLength :
                   chatHistory'[i] # chatHistory[maxHistoryLength]

C2_OldestFirstOut ==
    LET n == Len(chatHistory)
        fresh == Cardinality({i \in 1..n : chatHistory[i].question.body > 0})
    IN  \A i \in 1..n :
            /\ i <= fresh => chatHistory[i].question.body > 0
            /\ i > fresh => chatHistory[i] = PastHistory(PreFill)[i - fresh]

C2_EvictsOldest == []C2_OldestFirstOut /\ [][C2_EvictionStep]_vars

\* 51 consultations in a row: the first is gone, the others are there
C2_Witness ==
    /\ phase = "ready"
    /\ Len(chatHistory) = maxHistoryLength
    /\ Cardinality(added) + PreFill = maxHistoryLength + 1
    /\ \A i \in 1..Len(chatHistory) :
           chatHistory[i].question.body =
               IF i <= Cardinality(added) THEN Cardinality(added) + 1 - i
               ELSE Cardinality(added) - i

\* C3: when a request submitted later completes first, its entry is written
\* first, and the entry of the earlier request, written when that one
\* completes, goes in front of it with a timestamp that is not earlier:
\* the order of the entries is the order of completion.
C3_CompletionOrderStep ==
    \A a, b \in Requests :
        a < b =>
            /\ (Completing(b) /\ req'[a].state = "inflight") =>
                   /\ EntryOf(b, chatHistory'[1])
                   /\ \A i \in 1..Len(chatHistory') :
                          chatHistory'[i].question # req[a].question
            /\ (Completing(a) /\ req[b].state = "success") =>
                   \A j \in 1..Len(chatHistory) :
                       chatHistory[j].question = req[b].question =>
                           /\ EntryOf(a, chatHistory'[1])
                           /\ chatHistory'[j + 1] = chatHistory[j]
                           /\ chatHistory'[1].timestamp >=
                                  chatHistory'[j + 1].timestamp

C3_CompletionOrder == [][C3_CompletionOrderStep]_vars

\* request 2 was sent while request 1 was in flight and completed first:
\* the entry of request 1 is the newer one
C3_Witness ==
    /\ req[1].state = "success" /\ req[2].state = "success"
    /\ Questions(chatHistory) = <<1, 2>>
    /\ chat[2].req = 1 /\ chat[3].req = 2 /\ chat[3].type = "user"

\* C4: the timestamps of the history never increase from the first entry
\* to the last, and whenever updateHistoryDisplay renders the history it
\* shows the first min(5, size) entries, which are the most recent ones, in
\* the order of the history (the placeholder when there is none).
C4_NewestFirst ==
    \A i, j \in 1..Len(chatHistory) :
        i < j => chatHistory[i].timestamp >= chatHistory[j].timestamp

C4_ViewStep ==
    (historyPanel' # historyPanel /\ phase' = "ready") =>
        LET n == Min(HistoryViewLimit, Len(chatHistory'))
        IN  /\ Len(historyPanel'.items) = n
            /\ historyPanel'.kind = IF n = 0 THEN "placeholder" ELSE "list"
            /\ \A i \in 1..n :
                   /\ historyPanel'.items[i].question = chatHistory'[i].question
                   /\ historyPanel'.items[i].tag = Field(chatHistory'[i], "tag")
                   /\ historyPanel'.items[i].date =
                          formatDate(chatHistory'[i].timestamp)

C4_RecentFirst == []C4_NewestFirst /\ [][C4_ViewStep]_vars

\* the page was loaded with more than five entries stored, the newest of
\* them written by this model's requests: the view shows the first five
C4_Witness ==
    /\ phase = "ready"
    /\ Len(chatHistory) > HistoryViewLimit
    /\ Len(historyPanel.items) = HistoryViewLimit
    /\ historyPanel.items[1].question.body > 0
    /\ historyPanel.items[1].question = chatHistory[1].question
    /\ historyPanel.items[HistoryViewLimit].question =
           chatHistory[HistoryViewLimit].question

\* C5: a completion with status 'success' adds exactly one entry, in front
\* of the others; a completion with another status, a request that throws
\* and a rejected empty input leave chatHistory and the stored copy as they
\* were; nothing else on a page that is running adds an entry.
RejectedInput ==
    notification' # notification /\ notification'.type = "warning"

C5_Step ==
    /\ \A r \in Requests :
           /\ Completing(r) =>
                  /\ Len(chatHistory') =
                         Min(Len(chatHistory) + 1, maxHistoryLength)
                  /\ EntryOf(r, chatHistory'[1])
                  /\ \A i \in 2..Len(chatHistory') :
                         chatHistory'[i] = chatHistory[i - 1]
           /\ (InFlight(r) /\ req'[r].state \in {"error", "thrown"}) =>
                  chatHistory' = chatHistory /\ stored' = stored
    /\ RejectedInput =>
           /\ chatHistory' = chatHistory /\ stored' = stored
           /\ req' = req /\ chat' = chat
    /\ (phase = "ready" /\ phase' = "ready") =>
           /\ (chatHistory' # chatHistory /\ chatHistory' # <<>>) =>
                  \E r \in Requests : Completing(r)
           /\ (stored' # stored /\ stored'.present) =>
                  \E r \in Requests : Completing(r)

C6_Step ==
    \A r \in Requests :
        (InFlight(r) /\ req'[r].write = "failed") =>
            /\ req'[r].state = "success"
            /\ consoleLog' = Append(consoleLog, "storage.set")
            /\ Len(chatHistory') = Min(Len(chatHistory) + 1, maxHistoryLength)
            /\ EntryOf(r, chatHistory'[1])
            /\ chat'[Len(chat')].req = r
            /\ chat'[Len(chat')].content = <<"answer", "answer">>
            /\ ~chat'[Len(chat')].danger
            /\ notification'.type = "success"
            /\ stored' = stored

C6_WriteFailureTolerated == [][C6_Step]_vars

\* a consultation completed while nothing could be stored
C6_Witness ==
    \E r \in Requests :
        /\ req[r].state = "success" /\ req[r].write = "failed"
        /\ ~stored.present
        /\ Len(chatHistory) = 1 /\ chatHistory[1].question = req[r].question
        /\ consoleLog = <<"storage.set">>
        /\ notification.type = "success"

\* two histories with the same entries: the same values under every key
SameEntries(h1, h2) ==
    /\ Len(h1) = Len(h2)
    /\ \A i \in 1..Len(h1) :
           \A k \in EntryKeys : Field(h1[i], k) = Field(h2[i], k)

\* the newest entry was added on this page and could not be stored
NewestNotStored ==
    /\ Len(chatHistory) > 0
    /\ \E r \in added :
           /\ req[r].question = chatHistory[1].question
           /\ req[r].write = "failed"

\* C7: on a running page, unless the newest entry could not be stored, what
\* storage.get reads under 'ai_consultation_history' has the entries of
\* chatHistory, value for value; every addToHistory whose write succeeds
\* makes it so, and initialize gives the page these stored entries.
C7_StoredIsHistory ==
    (phase = "ready" /\ ~NewestNotStored) =>
        /\ SameEntries(storageGet(stored, <<>>), chatHistory)
        /\ stored.present <=> Len(chatHistory) > 0

C7_Step ==
    /\ \A r \in Requests :
           (InFlight(r) /\ req'[r].write = "ok") =>
               /\ stored'.present
               /\ SameEntries(storageGet(stored', <<>>), chatHistory')
    /\ (phase = "constructed" /\ phase' = "ready") =>
           /\ stored' = stored
           /\ SameEntries(chatHistory', storageGet(stored, <<>>))

C7_WriteThrough == []C7_StoredIsHistory /\ [][C7_Step]_vars

\* a page that was loaded again holds the two entries written before, the
\* newer one without a tag property (its tag was undefined)
C7_Witness ==
    /\ phase = "ready"
    /\ chat = <<>>
    /\ Cardinality(added) = 2
    /\ "tag" \notin DOMAIN chatHistory[1]
    /\ Field(chatHistory[2], "tag") = "harvest"

\* C8: from clearHistory until something else is notified, chatHistory is
\* empty, nothing is stored and the view shows the placeholder; and while
\* the history of a running page is empty nothing is stored, so that a
\* page loaded then starts with an empty history.
C8_ClearedIsEmpty ==
    /\ notification.message = "history cleared" =>
           /\ chatHistory = <<>>
           /\ ~stored.present
           /\ historyPanel.kind = "placeholder"
    /\ (phase = "ready" /\ chatHistory = <<>>) =>
           storageGet(stored, <<>>) = <<>>

\* a history with an entry was cleared while a request was in flight
C8_Witness ==
    /\ notification.message = "history cleared"
    /\ \E r \in Requests : req[r].state = "success" /\ req[r].write = "ok"
    /\ \E r \in Requests : InFlight(r)

\* C9: a step of a running page leaves chatHistory as it is, empties it, or
\* puts one entry in front of it, every old entry that is still there being
\* what it was, one place further back; selecting a tag changes neither
\* chatHistory nor the stored copy.
C9_Step ==
    (phase = "ready" /\ phase' = "ready") =>
        /\ \/ chatHistory' = chatHistory
           \/ chatHistory' = <<>>
           \/ /\ Len(chatHistory') =
                     Min(Len(chatHistory) + 1, maxHistoryLength)
              /\ \A i \in 2..Len(chatHistory') :
                     chatHistory'[i] = chatHistory[i - 1]
        /\ selectedTag' # selectedTag =>
               chatHistory' = chatHistory /\ stored' = stored

C9_EntriesImmutable == [][C9_Step]_vars

\* the tag was changed between two consultations: the older entry kept its
\* tag, and the oldest entry of all was pushed out
C9_Witness ==
    /\ Len(chatHistory) = maxHistoryLength
    /\ Cardinality(added) = 2
    /\ chatHistory[2].question.body > 0
    /\ chatHistory[2].tag = "general"
    /\ chatHistory[1].tag = Undefined
    /\ chatHistory[3] = PastHistory(PreFill)[1]

C11_TagInSet ==
    /\ \A r \in Requests : req[r].state # "none" => req[r].tag \in Tags
    /\ \A i \in 1..Len(chatHistory) : Field(chatHistory[i], "tag") \in Tags

\* sendQuestion showed its warning in this step
WarnedEmpty ==
    /\ notification' # notification
    /\ notification'.message = "enter a question or attach an image"

\* sendQuestion sent request r in this step
Sending(r) == req[r].state = "none" /\ req'[r].state = "inflight"

\* C12: sendQuestion shows its warning only for a blank question without an
\* attached image, and then sends nothing and adds no chat message and no
\* history entry; every request it sends has a question that is not blank
\* or an image, and with an image attached a blank question is sent (the
\* user message and the loading message are added).
C12_Step ==
    /\ WarnedEmpty =>
           /\ trim(questionInput').body = 0
           /\ attachedImage = NoImage
           /\ req' = req /\ chat' = chat
           /\ chatHistory' = chatHistory /\ stored' = stored
           /\ notification'.type = "warning"
    /\ \A r \in Requests :
           Sending(r) =>
               /\ req'[r].question.body # 0 \/ req'[r].image # NoImage
               /\ req'[r].image = attachedImage
               /\ Len(chat') = Len(chat) + 2
               /\ notification' = notification
    /\ (attachedImage # NoImage /\ questionInput' # questionInput) =>
           \E r \in Requests : Sending(r)

C12_EmptyIffImage == [][C12_Step]_vars

\* a blank question went out with an image and was answered, and a blank
\* question without an image was refused afterwards
C12_Witness ==
    /\ \E r \in Requests :
           /\ req[r].state = "success"
           /\ req[r].question = EmptyText
           /\ req[r].image # NoImage
           /\ Len(chatHistory) = 1
    /\ notification.message = "enter a question or attach an image"
    /\ attachedImage = NoImage


\* the consultation in hand passed the input checks
PassedInputChecks ==
    pipeline \in {"InputsGathered", "PromptComposed", "ProviderInvoked",
                  "ProviderFailed", "Valid", "Invalid", "FallbackApplied",
                  "Completed"}

\* the provider output of the consultation in hand became its judgment
OutputAccepted ==
    /\ output # NoOutput
    /\ Len(parseOutput(output, resolveTag(request.tag))) > 0

C13_Outcome ==
    /\ PassedInputChecks => inputError(request, camera) = "none"
    /\ pipeline = "Completed" =>
           /\ response.status = "success"
           /\ response.degraded = ~OutputAccepted
    /\ response.status = "error" =>
           /\ pipeline = "Rejected"
           /\ inputError(request, camera) # "none"
           /\ response.error = inputError(request, camera)
    /\ pipeline = "Rejected" => response.status = "error"

\* C13: every consultation that passes the input checks ends in Completed
\* with status success, degraded exactly when the providers were exhausted
\* or the output was invalid, and never with status error; the only error
\* responses are those of a failed input precondition.
C13_AlwaysCompletes ==
    /\ []C13_Outcome
    /\ (pipeline = "InputsGathered") ~> (pipeline = "Completed")

\* a consultation completed degraded after both providers failed twice
C13_Witness ==
    /\ pipeline = "Completed"
    /\ response.status = "success"
    /\ response.degraded
    /\ Len(attempts) = 2 * NumProviders
    /\ output = NoOutput

\* the providers called for the consultation in hand, in the order of the
\* calls: the attempts that ended and the one in flight
Calls ==
    [n \in 1..Len(attempts) |-> attempts[n].provider]
    \o (IF pipeline = "ProviderInvoked" THEN <<provider>> ELSE <<>>)

\* C14: the providers are tried one at a time in priority order, each at
\* most twice; a second attempt with a provider is made only after a
\* transient failure of the first, a failure that is not transient moves on
\* to the next provider without a retry.
C14_ChainOrder ==
    /\ \A i \in 1..NumProviders :
           Cardinality({n \in 1..Len(Calls) : Calls[n] = i}) <= MaxAttempts
    /\ Len(Calls) > 0 => Calls[1] = nextProvider(0, prompt.capability)
    /\ \A n \in 1..Len(attempts) :
           /\ attempts[n].outcome \in {"answered", "deadline"} =>
                  n = Len(Calls)
           /\ n < Len(Calls) =>
                  /\ Calls[n + 1] = Calls[n] =>
                         attempts[n].outcome \in Transient
                  /\ Calls[n + 1] # Calls[n] =>
                         Calls[n + 1] = nextProvider(Calls[n],
                                                     prompt.capability)
                  /\ attempts[n].outcome \in NonTransient =>
                         Calls[n + 1] # Calls[n]

\* the first provider timed out, was tried again and refused the key; the
\* second provider is in flight
C14_Witness ==
    /\ pipeline = "ProviderInvoked"
    /\ attempts = <<Attempt(1, "timeout"), Attempt(1, "auth")>>
    /\ provider = 2

CardShowsReady ==
    /\ harvestCard.content[1] = "card"
    /\ harvestCard.content[2] = "ready"

ShownPercent(shown, scale) ==
    /\ Len(shown) = 1
    /\ shown[1] >= 0
    /\ shown[1] <= 100 * scale

C19_VolumeInRange ==
    /\ current_volume >= 0
    /\ current_volume <= tank_capacity
    /\ Len(remaining) > 0 => remaining[1] >= 0

\* a step in which the callback of an interval runs
TimerCallback == tick' # tick

C18_Step ==
    /\ updateTimer' = 0 => timers' = {}
    /\ TimerCallback => updateTimer # 0 /\ timers = {updateTimer}

C20_Step ==
    /\ statusInFlight' <= 1
    /\ isUpdating => statusInFlight' <= statusInFlight
    /\ (isUpdating /\ lastCall' # lastCall) => lastCall' = "skipped"

\* C20: a DashboardManager has at most one updateSystemStatus request in
\* flight; a call of updateSystemStatus made while isUpdating is true
\* returns without issuing a request.
C20_OneStatusRequest == [][C20_Step]_vars

\* updateSystemStatus was called while a request was in flight and
\* returned without a second one
C20_Witness ==
    /\ isUpdating
    /\ statusInFlight = 1
    /\ lastCall = "skipped"

C21_Step ==
    /\ statusInFlight' < statusInFlight => ~isUpdating'
    /\ isUpdating' => statusInFlight' > 0

\* C21: the isUpdating guard is always released: when the status request
\* in flight settles, by success or by error, isUpdating is false again, it
\* is never true without a request in flight, and so a status refresh that
\* is locked is unlocked in the end.
C21_GuardReleased ==
    /\ [][C21_Step]_vars
    /\ isUpdating ~> ~isUpdating

\* a status request was issued and has settled: the guard is free again
C21_Witness ==
    /\ isInitialized
    /\ lastCall = "issued"
    /\ statusInFlight = 0
    /\ ~isUpdating

C23_SecondCall ==
    (isInitialized /\ isInitialized')
    => \/ lastInit' = lastInit
       \/ /\ lastInit' = "skipped"
          /\ UNCHANGED <<temperatureChart, updateTimer, timers,
                         statusInFlight, historyInFlight, harvestInFlight>>

\* a call of initialize on a manager that is not initialized does all of
\* the initialization: a new interval, a status request in flight, a
\* harvest request, and with the chart the request for its history
C23_FullCall ==
    (~isInitialized /\ isInitialized')
    => /\ lastInit' = "full"
       /\ updateTimer' # 0 /\ timers' = {updateTimer'}
       /\ statusInFlight' = 1
       /\ harvestInFlight' = harvestInFlight + 1
       /\ temperatureChart' # <<>> =>
              historyInFlight' = historyInFlight + 1

\* C23: initialize is idempotent while the manager is initialized: a
\* second call without a cleanup in between creates no second chart, sets
\* no further interval and issues no request; after cleanup, initialize
\* performs a full initialization again.
C23_InitializeIdempotent == [][C23_SecondCall /\ C23_FullCall]_vars

\* the live datapoints on the chart
LivePoints(chart) == IF Len(chart) = 0 THEN 0 ELSE chart[1].live

C24_Step ==
    /\ LivePoints(temperatureChart') > LivePoints(temperatureChart)
       => historyLoaded
    /\ (/\ historyInFlight' < historyInFlight
        /\ temperatureChart' # temperatureChart)
       => LivePoints(temperatureChart) = 0

\* C24: live datapoints are appended to the chart only after the history
\* has been loaded (historyLoaded is true), and so the load of the history
\* never overwrites or discards a live datapoint that is on the chart,
\* whatever the order in which the history and the sensor responses arrive.
C24_LiveAfterHistory == [][C24_Step]_vars

\* C25: the chart never holds more than 24 datapoints, and its labels and
\* its data always have the same length, after any sequence of
\* updateChartData (history or sample data) and addDatapointToChart.
C25_ChartBounded ==
    Len(temperatureChart) > 0
    => /\ temperatureChart[1].labels <= 24
       /\ temperatureChart[1].data <= 24
       /\ temperatureChart[1].labels = temperatureChart[1].data

\* ------------------------------------------------ chat: the messages
Settled(r) == req[r].state \in {"success", "error", "thrown"}
\* every message displayed belongs to request r: no other question was
\* sent since the page was loaded
OnlyRequest(r) == \A i \in 1..Len(chat) : chat[i].req = r

\* C26: when the request of a single sendQuestion settles, the chat is the
\* user's message followed by exactly one AI message, which is the answer
\* on success and an error message otherwise (error status or throw), and
\* no loading message is left.
C26_Step ==
    \A r \in Requests :
        (InFlight(r) /\ Settled(r)' /\ OnlyRequest(r)) =>
            /\ Len(chat') = 2
            /\ chat'[1] = Message("user", <<"question", req[r].question>>,
                                  FALSE, FALSE, r)
            /\ chat'[2].type = "ai" /\ chat'[2].req = r
            /\ ~chat'[2].isLoading
            /\ chat'[2].content[1] =
                   IF req'[r].state = "success" THEN "answer" ELSE "error"
C27_OverlapSettles ==
    (\A r \in Requests : ~InFlight(r)) =>
        /\ \A i \in 1..Len(chat) : ~chat[i].isLoading
        /\ \A i \in 1..Len(chat) :
              (chat[i].type = "user" /\ Settled(chat[i].req)) =>
                  \E j \in 1..Len(chat) :
                      /\ chat[j].type = "ai" /\ ~chat[j].isLoading
                      /\ chat[j].req = chat[i].req

\* C28: the tag stored in the history entry of a consultation is the tag
\* that was sent with its request, even when selectedTag changed while the
\* request was in flight.
C28_Step ==
    \A r \in Requests :
        (InFlight(r) /\ req'[r].state = "success") =>
            /\ Len(chatHistory') > 0
            /\ Field(chatHistory'[1], "question") = req[r].question
            /\ Field(chatHistory'[1], "tag") = req[r].tag
C28_TagOfRequest == [][C28_Step]_vars

\* C30: once the page is initialized the history panel shows the current
\* history: the five newest entries of chatHistory, newest first, also
\* right after a successful consultation added an entry.
C30_PanelCurrent ==
    phase = "ready" => historyPanel = updateHistoryDisplay(chatHistory)

\* C29: whenever the page is initialized, the .tag-item elements marked
\* active are exactly those whose data-tag equals selectedTag, also after
\* loadAvailableTags resolved and updateTagsDisplay rendered the list again.
C29_ActiveIsSelected ==
    phase = "ready" => tagItems.active = tagItems.shown \cap {selectedTag}

\* C31: executeQuickAction with action harvest, disease or cooking sets
\* selectedTag to the action and sends the preset question of the action
\* with that tag (the question goes through the input field, which
\* sendQuestion empties); with any other action it changes neither
\* selectedTag, the input field nor the chat, and sends no request.
C31_Step ==
    \A action \in ActionChoices :
        executeQuickAction(action) =>
            IF action \in {"harvest", "disease", "cooking"}
            THEN /\ selectedTag' = action
                 /\ questionInput' = EmptyText
                 /\ presetQuestion(action) # EmptyText
                 /\ \E r \in Requests :
                       /\ req[r].state = "none"
                       /\ req'[r].state = "inflight"
                       /\ req'[r].question = presetQuestion(action)
                       /\ req'[r].tag = action
                       /\ \A o \in Requests \ {r} : req'[o] = req[o]
                       /\ chat' = chat \o
                            <<Message("user", <<"question", presetQuestion(action)>>,
                                      FALSE, FALSE, r),
                              Message("ai", <<"loading">>, TRUE, FALSE, r)>>
            ELSE UNCHANGED <<selectedTag, questionInput, chat, req>>
C31_QuickAction == [][C31_Step]_vars
C31_Witness ==
    \E r \in Requests :
        /\ InFlight(r) /\ req[r].tag = "disease" /\ selectedTag = "disease"
        /\ req[r].question = presetQuestion("disease")

\* C32: the attached image is always either absent or a file of at most
\* 5 MiB (5 * 1024 * 1024 bytes, inclusive) whose type starts with
\* 'image/'; a selection that fails either check shows a warning and
\* leaves the previous attachment as it was.
C32_Attached ==
    \/ attachedImage = NoImage
    \/ /\ attachedImage.size <= 5 * 1024 * 1024
       /\ attachedImage.type \in {"image/png", "image/jpeg"}
C32_Step ==
    \A file \in ImageFiles :
        (/\ HandleImageSelect({file})
         /\ \/ file.size > 5 * 1024 * 1024
            \/ file.type \notin {"image/png", "image/jpeg"}) =>
            /\ attachedImage' = attachedImage
            /\ notification'.type = "warning"
C32_ImageValid == /\ []C32_Attached /\ [][C32_Step]_vars
C32_Witness ==
    /\ attachedImage.size = 5 * 1024 * 1024
    /\ notification.message = "image too large"

====
